---- MODULE Spec2Model ----
(***************************************************************************)
(* Model of the Blackjack engine of blackjack-crew: the shoe (Deck), hand  *)
(* scoring, the round state machine (BlackjackGame), the action gateway    *)
(* (GameActionTool._run) and the turn guard (SafeGameActionTool._run).     *)
(*                                                                         *)
(* A card is a number 1..52, its place among the 52 cards of one built     *)
(* deck; rank_of and suit_of give its two fields.  The shoe `cards` is the *)
(* Python list Deck.cards: deal_card pops its LAST element.                *)
(* random.shuffle is a nondeterministic choice of a permutation of the 208 *)
(* built cards; the permutations enumerated are those of Shuffles below.   *)
(* Returned strings                                                        *)
(* are records naming the f-string that produced them, whether it carries  *)
(* the "**TASK COMPLETE.**" marker, and the values interpolated into it.   *)
(* Text handed to the gateway is a sequence of one-character strings.      *)
(* decks records the num_decks the Deck was constructed with (the Deck     *)
(* itself does not keep it).                                               *)
(***************************************************************************)
EXTENDS Integers, Sequences, FiniteSets, TLC

VARIABLES cards, hands, active_players, game_status, counts, result, decks

vars == <<cards, hands, active_players, game_status, counts, result, decks>>

(***************************** bounds **************************************)
\* number of cards on top of a shuffled shoe whose ranks are enumerated
TopLen == 4
\* drawing operations are started only while fewer cards than this are drawn
MaxDraws == 7
\* SafeGameActionTool(max_actions_per_player): the cap M of the turn guard
max_actions == 3
\* Deck(num_decks) is built with 1..MaxDecks decks, and with the default
MaxDecks == 2
\* score_hand is applied to every list of at most MaxHand cards of ScoreCards
MaxHand == 4
\* number of cards on top of the shoe of a played round whose ranks are
\* enumerated, beside the three that are fixed
RoundLen == 5

(***************************** Card, Deck **********************************)
RANKS == <<"A", "2", "3", "4", "5", "6", "7", "8", "9", "10", "J", "Q", "K">>
SUITS == <<"Spades", "Hearts", "Diamonds", "Clubs">>
NUM_DECKS == 4

\* Card(rank, suit), with rank and suit given by their places in RANKS and SUITS
Card(rank, suit) == (rank - 1) * 4 + suit
rank_of(card) == RANKS[((card - 1) \div 4) + 1]
suit_of(card) == SUITS[((card - 1) % 4) + 1]

\* int(self.rank) for the ranks "2".."10"
RankNumber == [r \in {RANKS[i] : i \in 2..10} |->
                 CHOOSE n \in 2..10 : RANKS[n] = r]

get_value(card) ==
    IF rank_of(card) \in {"J", "Q", "K"} THEN 10
    ELSE IF rank_of(card) = "A" THEN 11
    ELSE RankNumber[rank_of(card)]

\* Deck.__init__ before the shuffle: decks, then ranks, then suits
BuildDeck(num_decks) ==
    [i \in 1..(52 * num_decks) |->
        Card((((i - 1) % 52) \div 4) + 1, ((i - 1) % 4) + 1)]

DeckSize == 52 * NUM_DECKS

\* ranks enumerated for the top TopLen cards of a shuffled shoe
TopRanks == <<1, 13>>

\* the build position of the j-th card of rank number r (j from 1)
BuildIndex(r, j) == ((j - 1) \div 4) * 52 + (r - 1) * 4 + ((j - 1) % 4) + 1

\* One outcome of random.shuffle on the built list: the cards drawn first
\* have the ranks top[1], top[2], ...; the cards under them come out in
\* build order.  The list is returned bottom first, as pop() takes the end.
Shuffle(top) ==
    LET n       == Len(top)
        occ(k)  == Cardinality({j \in 1..k : top[j] = top[k]})
        topIdx  == [k \in 1..n |-> BuildIndex(top[k], occ(k))]
        used    == {topIdx[k] : k \in 1..n}
        rest    == SelectSeq([i \in 1..DeckSize |-> i], LAMBDA i : i \notin used)
        order   == topIdx \o rest
        built   == BuildDeck(NUM_DECKS)
    IN  [i \in 1..DeckSize |-> built[order[DeckSize + 1 - i]]]

Shuffles ==
    {Shuffle(top) : top \in [1..TopLen -> {TopRanks[i] : i \in 1..Len(TopRanks)}]}

\* Deck.deal_card: an empty list is rebuilt (and reshuffled to `fresh`)
\* before the pop
deal_card(deck, fresh) ==
    LET c == IF deck = <<>> THEN fresh ELSE deck
    IN  [card |-> c[Len(c)], cards |-> SubSeq(c, 1, Len(c) - 1)]

\* the reshuffles a call drawing at most n cards can meet
Refills(deck, n) == IF Len(deck) < n THEN Shuffles ELSE {<<>>}

(***************************** BlackjackGame *******************************)
player_names == <<"P1", "P2">>
dealer_name == "Dealer"

Players == {player_names[i] : i \in 1..Len(player_names)}
Names == Players \cup {dealer_name}

RECURSIVE SumValues(_)
SumValues(hand) ==
    IF hand = <<>> THEN 0 ELSE get_value(Head(hand)) + SumValues(Tail(hand))

NumAces(hand) == Cardinality({i \in 1..Len(hand) : rank_of(hand[i]) = "A"})

\* the adjustment made once instead of in a loop
AdjustAces_once(score, num_aces) ==
    IF score > 21 /\ num_aces > 0 THEN score - 10 ELSE score

RECURSIVE AdjustAces(_, _)
AdjustAces(score, num_aces) ==
    IF score > 21 /\ num_aces > 0 THEN AdjustAces(score - 10, num_aces - 1)
    ELSE score

score_hand(hand) == AdjustAces(SumValues(hand), NumAces(hand))

\* the Round as one value: the fields of a BlackjackGame
Game == [cards |-> cards, hands |-> hands,
         active_players |-> active_players, game_status |-> game_status]

\* One returned line: `text` names the f-string, task_complete says whether
\* it contains "**TASK COMPLETE.**", and player, card (the cards printed)
\* and score are the values interpolated into it.
Msg(text, complete, player, card, score) ==
    [text |-> text, task_complete |-> complete, player |-> player,
     card |-> card, score |-> score]

\* a call that returns None
NoReturn == <<>>

RECURSIVE DealRounds(_, _, _)
\* the deal giving each name its two cards at once
DealRounds_pairs(g, k, fresh) ==
    LET order == player_names \o <<dealer_name>>
        n     == Len(order)
    IN  IF k = 2 * n THEN g
        ELSE LET d    == deal_card(g.cards, fresh)
                 name == order[(k \div 2) + 1]
             IN  DealRounds([g EXCEPT !.cards = d.cards,
                                      !.hands[name] = Append(@, d.card)],
                            k + 1, fresh)

\* the double loop of deal_initial_cards: k cards already dealt
DealRounds(g, k, fresh) ==
    LET order == player_names \o <<dealer_name>>
        n     == Len(order)
    IN  IF k = 2 * n THEN g
        ELSE LET d    == deal_card(g.cards, fresh)
                 name == order[(k % n) + 1]
             IN  DealRounds([g EXCEPT !.cards = d.cards,
                                      !.hands[name] = Append(@, d.card)],
                            k + 1, fresh)

\* the deal that makes every name of the hand mapping active
deal_initial_cards_all_active(g, fresh) ==
    LET reset == [g EXCEPT !.hands = [name \in Names |-> <<>>],
                           !.active_players = Names]
        dealt == DealRounds(reset, 0, fresh)
    IN  [g |-> [dealt EXCEPT !.game_status = "IN_PROGRESS"], ret |-> NoReturn]

deal_initial_cards(g, fresh) ==
    LET reset == [g EXCEPT !.hands = [name \in Names |-> <<>>],
                           !.active_players = Players]
        dealt == DealRounds(reset, 0, fresh)
    IN  [g |-> [dealt EXCEPT !.game_status = "IN_PROGRESS"], ret |-> NoReturn]

\* hit without the branch for a score of exactly 21
hit_no_auto_stand(g, player_name, fresh) ==
    IF player_name \notin g.active_players
    THEN [g |-> g,
          ret |-> <<Msg("is already finished", FALSE, player_name, <<>>, 0)>>]
    ELSE LET d     == deal_card(g.cards, fresh)
             g1    == [g EXCEPT !.cards = d.cards,
                                !.hands[player_name] = Append(@, d.card)]
             score == score_hand(g1.hands[player_name])
         IN  IF score > 21
             THEN [g |-> [g1 EXCEPT !.active_players = @ \ {player_name}],
                   ret |-> <<Msg("BUST", TRUE, player_name, <<d.card>>, score)>>]
             ELSE [g |-> g1,
                   ret |-> <<Msg("New score", FALSE, player_name,
                                 <<d.card>>, score)>>]

\* hit without the check that the player is still active
hit_unchecked(g, player_name, fresh) ==
    LET d     == deal_card(g.cards, fresh)
        g1    == [g EXCEPT !.cards = d.cards,
                           !.hands[player_name] = Append(@, d.card)]
        score == score_hand(g1.hands[player_name])
        out   == [g1 EXCEPT !.active_players = @ \ {player_name}]
    IN  IF score > 21
        THEN [g |-> out,
              ret |-> <<Msg("BUST", TRUE, player_name, <<d.card>>, score)>>]
        ELSE IF score = 21
        THEN [g |-> out,
              ret |-> <<Msg("STAND automatically", TRUE, player_name,
                            <<d.card>>, 21)>>]
        ELSE [g |-> g1,
              ret |-> <<Msg("New score", FALSE, player_name, <<d.card>>, score)>>]

\* hit whose bust message lacks the completion marker
hit_bust_unmarked(g, player_name, fresh) ==
    IF player_name \notin g.active_players
    THEN [g |-> g,
          ret |-> <<Msg("is already finished", FALSE, player_name, <<>>, 0)>>]
    ELSE LET d     == deal_card(g.cards, fresh)
             g1    == [g EXCEPT !.cards = d.cards,
                                !.hands[player_name] = Append(@, d.card)]
             score == score_hand(g1.hands[player_name])
             out   == [g1 EXCEPT !.active_players = @ \ {player_name}]
         IN  IF score > 21
             THEN [g |-> out,
                   ret |-> <<Msg("BUST", FALSE, player_name, <<d.card>>, score)>>]
             ELSE IF score = 21
             THEN [g |-> out,
                   ret |-> <<Msg("STAND automatically", TRUE, player_name,
                                 <<d.card>>, 21)>>]
             ELSE [g |-> g1,
                   ret |-> <<Msg("New score", FALSE, player_name,
                                 <<d.card>>, score)>>]

\* hit that puts the new card at the front of the hand
hit_prepend(g, player_name, fresh) ==
    IF player_name \notin g.active_players
    THEN [g |-> g,
          ret |-> <<Msg("is already finished", FALSE, player_name, <<>>, 0)>>]
    ELSE LET d     == deal_card(g.cards, fresh)
             g1    == [g EXCEPT !.cards = d.cards,
                                !.hands[player_name] = <<d.card>> \o @]
             score == score_hand(g1.hands[player_name])
             out   == [g1 EXCEPT !.active_players = @ \ {player_name}]
         IN  IF score > 21
             THEN [g |-> out,
                   ret |-> <<Msg("BUST", TRUE, player_name, <<d.card>>, score)>>]
             ELSE IF score = 21
             THEN [g |-> out,
                   ret |-> <<Msg("STAND automatically", TRUE, player_name,
                                 <<d.card>>, 21)>>]
             ELSE [g |-> g1,
                   ret |-> <<Msg("New score", FALSE, player_name,
                                 <<d.card>>, score)>>]

hit(g, player_name, fresh) ==
    IF player_name \notin g.active_players
    THEN [g |-> g,
          ret |-> <<Msg("is already finished", FALSE, player_name, <<>>, 0)>>]
    ELSE LET d     == deal_card(g.cards, fresh)
             g1    == [g EXCEPT !.cards = d.cards,
                                !.hands[player_name] = Append(@, d.card)]
             score == score_hand(g1.hands[player_name])
             out   == [g1 EXCEPT !.active_players = @ \ {player_name}]
         IN  IF score > 21
             THEN [g |-> out,
                   ret |-> <<Msg("BUST", TRUE, player_name, <<d.card>>, score)>>]
             ELSE IF score = 21
             THEN [g |-> out,
                   ret |-> <<Msg("STAND automatically", TRUE, player_name,
                                 <<d.card>>, 21)>>]
             ELSE [g |-> g1,
                   ret |-> <<Msg("New score", FALSE, player_name,
                                 <<d.card>>, score)>>]

\* stand without the check that the player is still active
stand_unchecked(g, player_name) ==
    [g |-> [g EXCEPT !.active_players = @ \ {player_name}],
     ret |-> <<Msg("STANDS", TRUE, player_name, <<>>,
                   score_hand(g.hands[player_name]))>>]

\* stand that ends the turn of every player
stand_ends_all(g, player_name) ==
    IF player_name \in g.active_players
    THEN [g |-> [g EXCEPT !.active_players = {}],
          ret |-> <<Msg("STANDS", TRUE, player_name, <<>>,
                        score_hand(g.hands[player_name]))>>]
    ELSE [g |-> g,
          ret |-> <<Msg("has already finished", FALSE, player_name, <<>>, 0)>>]

stand(g, player_name) ==
    IF player_name \in g.active_players
    THEN [g |-> [g EXCEPT !.active_players = @ \ {player_name}],
          ret |-> <<Msg("STANDS", TRUE, player_name, <<>>,
                        score_hand(g.hands[player_name]))>>]
    ELSE [g |-> g,
          ret |-> <<Msg("has already finished", FALSE, player_name, <<>>, 0)>>]

RECURSIVE DealerLoop(_, _, _)
\* the dealer's loop drawing on 17 as well
DealerLoop_hits_17(g, log, fresh) ==
    IF score_hand(g.hands[dealer_name]) <= 17
    THEN LET d  == deal_card(g.cards, fresh)
             g1 == [g EXCEPT !.cards = d.cards,
                             !.hands[dealer_name] = Append(@, d.card)]
         IN  DealerLoop(g1,
                        Append(log, Msg("Dealer hits", FALSE, dealer_name, <<d.card>>,
                                        score_hand(g1.hands[dealer_name]))),
                        fresh)
    ELSE [g |-> g, log |-> log]

\* the dealer's loop logging the score it had before the draw
DealerLoop_stale_score(g, log, fresh) ==
    IF score_hand(g.hands[dealer_name]) < 17
    THEN LET d  == deal_card(g.cards, fresh)
             g1 == [g EXCEPT !.cards = d.cards,
                             !.hands[dealer_name] = Append(@, d.card)]
         IN  DealerLoop(g1,
                        Append(log, Msg("Dealer hits", FALSE, dealer_name, <<d.card>>,
                                        score_hand(g.hands[dealer_name]))),
                        fresh)
    ELSE [g |-> g, log |-> log]

\* the dealer drawing at most one card
DealerLoop_once(g, log, fresh) ==
    IF score_hand(g.hands[dealer_name]) < 17
    THEN LET d  == deal_card(g.cards, fresh)
             g1 == [g EXCEPT !.cards = d.cards,
                             !.hands[dealer_name] = Append(@, d.card)]
         IN  [g |-> g1,
              log |-> Append(log, Msg("Dealer hits", FALSE, dealer_name, <<d.card>>,
                                      score_hand(g1.hands[dealer_name])))]
    ELSE [g |-> g, log |-> log]

\* the while loop of dealer_play: g is the Round so far, log the lines so far
DealerLoop(g, log, fresh) ==
    IF score_hand(g.hands[dealer_name]) < 17
    THEN LET d  == deal_card(g.cards, fresh)
             g1 == [g EXCEPT !.cards = d.cards,
                             !.hands[dealer_name] = Append(@, d.card)]
         IN  DealerLoop(g1,
                        Append(log, Msg("Dealer hits", FALSE, dealer_name, <<d.card>>,
                                        score_hand(g1.hands[dealer_name]))),
                        fresh)
    ELSE [g |-> g, log |-> log]

dealer_play(g, fresh) ==
    LET hand         == g.hands[dealer_name]
        first        == <<Msg("Dealer reveals full hand", FALSE, dealer_name, hand,
                              score_hand(hand))>>
        loop         == DealerLoop(g, first, fresh)
        dealer_score == score_hand(loop.g.hands[dealer_name])
        last         == IF dealer_score > 21
                        THEN Msg("Dealer BUSTS", FALSE, dealer_name, <<>>, dealer_score)
                        ELSE Msg("Dealer STANDS", FALSE, dealer_name, <<>>, dealer_score)
    IN  [g |-> [loop.g EXCEPT !.game_status = "FINISHED"],
         ret |-> Append(loop.log, last)]

\* a raised exception in the place of a returned value
Raise(exception) == <<Msg(exception, FALSE, "", <<>>, 0)>>

\* self.hands.get(player_name, [])
hands_get(g, player_name) ==
    IF player_name \in DOMAIN g.hands THEN g.hands[player_name] ELSE <<>>

\* get_player_state showing the dealer's last card instead of the first
get_player_state_last_card(g, player_name) ==
    LET hand  == hands_get(g, player_name)
        score == score_hand(hand)
        up    == hands_get(g, dealer_name)
        status_message ==
            IF score > 21 THEN "BUSTED"
            ELSE IF player_name \notin g.active_players THEN "STAND (Turn Over)"
            ELSE "MUST CHOOSE HIT or STAND"
    IN  IF up = <<>>
        THEN [g |-> g, ret |-> Raise("IndexError")]
        ELSE [g |-> g,
              ret |-> <<[text |-> status_message, task_complete |-> FALSE,
                         player |-> player_name, card |-> hand, score |-> score,
                         dealer_up_card |-> up[Len(up)]]>>]

\* The summary returned by get_player_state: text is the status message,
\* card the hand printed and dealer_up_card the card printed as up-card.
get_player_state(g, player_name) ==
    LET hand  == hands_get(g, player_name)
        score == score_hand(hand)
        up    == hands_get(g, dealer_name)
        status_message ==
            IF score > 21 THEN "BUSTED"
            ELSE IF player_name \notin g.active_players THEN "STAND (Turn Over)"
            ELSE "MUST CHOOSE HIT or STAND"
    IN  IF up = <<>>
        THEN [g |-> g, ret |-> Raise("IndexError")]
        ELSE [g |-> g,
              ret |-> <<[text |-> status_message, task_complete |-> FALSE,
                         player |-> player_name, card |-> hand, score |-> score,
                         dealer_up_card |-> up[1]]>>]

\* one line of the scorecard; outcome is the text after "Outcome:" or, on
\* the dealer's line, BUSTED or STAND
ScoreLine(text, player, hand, score, outcome) ==
    [text |-> text, task_complete |-> FALSE, player |-> player, card |-> hand,
     score |-> score, outcome |-> outcome]

\* determine_winner with the dealer's bust tested before the player's
determine_winner_dealer_first(g) ==
    LET dealer_score  == score_hand(g.hands[dealer_name])
        dealer_busted == dealer_score > 21
        line(name) ==
            LET player_score == score_hand(g.hands[name])
            IN  ScoreLine("Outcome", name, g.hands[name], player_score,
                    IF dealer_busted THEN "Dealer BUSTED - Player WINS."
                    ELSE IF player_score > 21 THEN "BUSTED - Dealer WINS."
                    ELSE IF player_score > dealer_score THEN "Player WINS."
                    ELSE IF player_score < dealer_score THEN "Dealer WINS."
                    ELSE "PUSH (Tie).")
    IN  [g |-> g,
         ret |-> <<ScoreLine("GAME RESULTS", dealer_name, g.hands[dealer_name],
                             dealer_score,
                             IF dealer_busted THEN "BUSTED" ELSE "STAND")>>
                 \o [i \in 1..Len(player_names) |-> line(player_names[i])]]

\* determine_winner that also closes the round
determine_winner_finishing(g) ==
    LET dealer_score  == score_hand(g.hands[dealer_name])
        dealer_busted == dealer_score > 21
        line(name) ==
            LET player_score == score_hand(g.hands[name])
            IN  ScoreLine("Outcome", name, g.hands[name], player_score,
                    IF player_score > 21 THEN "BUSTED - Dealer WINS."
                    ELSE IF dealer_busted THEN "Dealer BUSTED - Player WINS."
                    ELSE IF player_score > dealer_score THEN "Player WINS."
                    ELSE IF player_score < dealer_score THEN "Dealer WINS."
                    ELSE "PUSH (Tie).")
    IN  [g |-> [g EXCEPT !.game_status = "FINISHED", !.active_players = {}],
         ret |-> <<ScoreLine("GAME RESULTS", dealer_name, g.hands[dealer_name],
                             dealer_score,
                             IF dealer_busted THEN "BUSTED" ELSE "STAND")>>
                 \o [i \in 1..Len(player_names) |-> line(player_names[i])]]

\* self.hands.items() yields the players in the order of player_names, then
\* the dealer, who is skipped
determine_winner(g) ==
    LET dealer_score  == score_hand(g.hands[dealer_name])
        dealer_busted == dealer_score > 21
        line(name) ==
            LET player_score == score_hand(g.hands[name])
            IN  ScoreLine("Outcome", name, g.hands[name], player_score,
                    IF player_score > 21 THEN "BUSTED - Dealer WINS."
                    ELSE IF dealer_busted THEN "Dealer BUSTED - Player WINS."
                    ELSE IF player_score > dealer_score THEN "Player WINS."
                    ELSE IF player_score < dealer_score THEN "Dealer WINS."
                    ELSE "PUSH (Tie).")
    IN  [g |-> g,
         ret |-> <<ScoreLine("GAME RESULTS", dealer_name, g.hands[dealer_name],
                             dealer_score,
                             IF dealer_busted THEN "BUSTED" ELSE "STAND")>>
                 \o [i \in 1..Len(player_names) |-> line(player_names[i])]]

(***************************** ResultTool **********************************)
\* json.dumps({"scorecard": result_text}): the scorecard wrapped
ResultTool_run(g) ==
    LET dw == determine_winner(g)
    IN  [g |-> dw.g,
         ret |-> <<[text |-> "scorecard", task_complete |-> FALSE, player |-> "",
                    card |-> <<>>, score |-> 0, scorecard |-> dw.ret]>>]

(***************************** GameActionTool ******************************)
\* str.strip() removes these from both ends
WHITESPACE == {" ", "\t", "\n", "\r"}

RECURSIVE lstrip(_)
lstrip(text) ==
    IF text # <<>> /\ Head(text) \in WHITESPACE THEN lstrip(Tail(text)) ELSE text

RECURSIVE rstrip(_)
rstrip(text) ==
    IF text # <<>> /\ text[Len(text)] \in WHITESPACE
    THEN rstrip(SubSeq(text, 1, Len(text) - 1)) ELSE text

strip(text) == rstrip(lstrip(text))

UPPERCASE == <<"A", "B", "C", "D", "E", "F", "G", "H", "I", "J", "K", "L", "M",
               "N", "O", "P", "Q", "R", "S", "T", "U", "V", "W", "X", "Y", "Z">>
LOWERCASE == <<"a", "b", "c", "d", "e", "f", "g", "h", "i", "j", "k", "l", "m",
               "n", "o", "p", "q", "r", "s", "t", "u", "v", "w", "x", "y", "z">>

lower(text) ==
    [i \in 1..Len(text) |->
        IF \E k \in 1..26 : UPPERCASE[k] = text[i]
        THEN LOWERCASE[CHOOSE k \in 1..26 : UPPERCASE[k] = text[i]]
        ELSE text[i]]

startswith(text, c) == text # <<>> /\ text[1] = c
endswith(text, c) == text # <<>> /\ text[Len(text)] = c

\* json.loads, for the objects whose keys are strings without escapes and
\* whose values are such strings, unsigned integers, true, false or null.
\* A value is [type, val]; the parse of a value or a member list is
\* [ok, next position, ...].
JSON_WS == {" ", "\t", "\n", "\r"}
DIGITS == {"0", "1", "2", "3", "4", "5", "6", "7", "8", "9"}
LITERALS == {<<"t", "r", "u", "e">>, <<"f", "a", "l", "s", "e">>,
             <<"n", "u", "l", "l">>}

RECURSIVE SkipWs(_, _)
SkipWs(text, i) ==
    IF i <= Len(text) /\ text[i] \in JSON_WS THEN SkipWs(text, i + 1) ELSE i

At(text, i) == IF i >= 1 /\ i <= Len(text) THEN text[i] ELSE "EOF"

\* a string starting at the quote text[i]: control characters and escapes
\* end the parse with an error
ParseString(text, i) ==
    LET closes == {j \in (i + 1)..Len(text) : text[j] = "\""}
    IN  IF At(text, i) # "\"" \/ closes = {}
        THEN [ok |-> FALSE, next |-> i, val |-> <<>>]
        ELSE LET j    == CHOOSE c \in closes : \A d \in closes : c <= d
                 body == SubSeq(text, i + 1, j - 1)
             IN  [ok   |-> \A k \in 1..Len(body) : body[k] \notin {"\t", "\n", "\r", "\\"},
                  next |-> j + 1, val |-> body]

StartsAt(text, i, word) ==
    /\ i + Len(word) - 1 <= Len(text)
    /\ SubSeq(text, i, i + Len(word) - 1) = word

RECURSIVE DigitsEnd(_, _)
DigitsEnd(text, i) ==
    IF At(text, i) \in DIGITS THEN DigitsEnd(text, i + 1) ELSE i

ParseValue(text, i) ==
    IF At(text, i) = "\""
    THEN LET s == ParseString(text, i)
         IN  [ok |-> s.ok, next |-> s.next, value |-> [type |-> "str", val |-> s.val]]
    ELSE IF At(text, i) \in DIGITS
    THEN LET j == DigitsEnd(text, i)
         IN  [ok |-> ~(text[i] = "0" /\ j > i + 1), next |-> j,
              value |-> [type |-> "int", val |-> SubSeq(text, i, j - 1)]]
    ELSE IF \E l \in LITERALS : StartsAt(text, i, l)
    THEN LET l == CHOOSE l \in LITERALS : StartsAt(text, i, l)
         IN  [ok |-> TRUE, next |-> i + Len(l),
              value |-> [type |-> "literal", val |-> l]]
    ELSE [ok |-> FALSE, next |-> i, value |-> [type |-> "none", val |-> <<>>]]

RECURSIVE ParseMembers(_, _, _)
\* members from position i on, up to the closing brace, which must end the
\* text; payload holds the <<key, value>> pairs read so far
ParseMembers(text, i, payload) ==
    LET key   == ParseString(text, SkipWs(text, i))
        colon == SkipWs(text, key.next)
        v     == ParseValue(text, SkipWs(text, colon + 1))
        after == SkipWs(text, v.next)
        more  == Append(payload, <<key.val, v.value>>)
    IN  IF ~key.ok \/ At(text, colon) # ":" \/ ~v.ok
        THEN [ok |-> FALSE, payload |-> <<>>]
        ELSE IF At(text, after) = ","
        THEN ParseMembers(text, after + 1, more)
        ELSE [ok |-> At(text, after) = "}" /\ after = Len(text), payload |-> more]

json_loads(text) ==
    LET i == SkipWs(text, 2)
    IN  IF At(text, SkipWs(text, 1)) # "{"
        THEN [ok |-> FALSE, payload |-> <<>>]
        ELSE IF At(text, i) = "}"
        THEN [ok |-> i = Len(text), payload |-> <<>>]
        ELSE ParseMembers(text, i, <<>>)

\* payload.get('action'): the last member of that key wins, None otherwise
dict_get(payload, key) ==
    LET at == {k \in 1..Len(payload) : payload[k][1] = key}
    IN  IF at = {} THEN [type |-> "none", val |-> <<>>]
        ELSE payload[CHOOSE k \in at : \A m \in at : m <= k][2]

\* lines 28-39: the text that is lower-cased and compared
action_text(action) ==
    LET text == strip(action)
    IN  IF startswith(text, "{") /\ endswith(text, "}")
        THEN LET parsed     == json_loads(text)
                 action_val == dict_get(parsed.payload, <<"a", "c", "t", "i", "o", "n">>)
             IN  IF parsed.ok /\ action_val.type = "str"
                 THEN strip(action_val.val) ELSE text
        ELSE text

RECURSIVE StripCalls(_)
StripCalls(text) ==
    IF Len(text) >= 2 /\ SubSeq(text, Len(text) - 1, Len(text)) = <<"(", ")">>
    THEN StripCalls(SubSeq(text, 1, Len(text) - 2)) ELSE text

\* normalisation that strips every trailing "()" before the comparison
action_norm_strip_calls(action) == StripCalls(lower(action_text(action)))

\* normalisation without lower()
action_norm_no_lower(action) == action_text(action)

action_norm(action) == lower(action_text(action))

(***************************** inputs **************************************)
\* An action argument: text, or a value that is not a str at all
Str(text) == [isstr |-> TRUE, text |-> text]
NotStr == [isstr |-> FALSE, text |-> <<>>]

Q == <<"\"">>
Hit_ == <<"H", "i", "t">>
hit_ == <<"h", "i", "t">>
stand_ == <<"s", "t", "a", "n", "d">>
Stand_ == <<"S", "t", "a", "n", "d">>
Key(name) == Q \o name \o Q
action_ == <<"a", "c", "t", "i", "o", "n">>
Json(key, value) == <<"{">> \o Key(key) \o <<":">> \o value \o <<"}">>

HitSpellings ==
    { hit_, Hit_, <<"H", "I", "T">>, <<" ">> \o hit_ \o <<"\n">>,
      hit_ \o <<"(", ")">>, <<"\t">> \o Hit_ \o <<"(", ")", " ">>,
      Json(action_, Q \o Hit_ \o Q),
      Json(action_, Q \o <<" ">> \o hit_ \o <<"(", ")", " ">> \o Q),
      <<" ", "{", " ">> \o Key(action_) \o <<" ", ":", " ">> \o Q \o <<"h", "I", "t">> \o Q
          \o <<" ", "}", "\n">>,
      <<"{">> \o Key(<<"p">>) \o <<":", "1", ",">> \o Key(action_) \o <<":">>
          \o Q \o Hit_ \o Q \o <<"}">> }

StandSpellings ==
    { stand_, Stand_, <<"S", "T", "A", "N", "D">>, <<" ">> \o Stand_ \o <<" ">>,
      stand_ \o <<"(", ")">>, <<" ">> \o Stand_ \o <<"(", ")", " ">>,
      Json(action_, Q \o Stand_ \o Q),
      Json(action_, Q \o stand_ \o <<"(", ")">> \o Q),
      <<"{">> \o Key(action_) \o <<":">> \o Q \o Hit_ \o Q \o <<",">>
          \o Key(action_) \o <<":">> \o Q \o Stand_ \o Q \o <<"}">> }

OtherTexts ==
    { <<>>, <<" ">>, <<"d", "o", "u", "b", "l", "e">>, hit_ \o <<" ", "m", "e">>,
      hit_ \o <<" ", "(", ")">>, hit_ \o <<"(", ")", "(", ")">>, hit_ \o <<"(">>,
      <<"h", "i", "t", "s">>, <<"{", "}">>, <<"{">> \o hit_ \o <<"}">>,
      Json(action_, Hit_), Json(action_, <<"5">>), Json(action_, <<"n", "u", "l", "l">>),
      Json(<<"m", "o", "v", "e">>, Q \o hit_ \o Q),
      Json(<<"A", "c", "t", "i", "o", "n">>, Q \o hit_ \o Q),
      Json(action_, Q \o <<"f", "o", "l", "d">> \o Q),
      Json(action_, Q \o hit_ \o <<"\n">> \o Q),
      <<"{">> \o Key(action_) \o <<":">> \o Q \o Hit_ \o Q,
      Json(action_, Q \o Hit_ \o Q) \o <<"}">>,
      Q \o hit_ \o Q }

Actions ==
    {Str(t) : t \in HitSpellings \cup StandSpellings \cup OtherTexts} \cup {NotStr}

\* the actions submitted by the steps of the model
Submitted ==
    { Str(Json(action_, Q \o Hit_ \o Q)), Str(<<" ">> \o Stand_ \o <<"(", ")", " ">>),
      Str(Json(action_, <<"5">>)), NotStr }

\* action_norm of every action above, evaluated once
NORMALIZED == [a \in Actions |-> IF a.isstr THEN action_norm(a.text) ELSE <<>>]

InvalidAction == <<Msg("Invalid action", FALSE, "", <<>>, 0)>>

GameActionTool_run(g, player_name, action, fresh) ==
    IF action.isstr
       /\ NORMALIZED[action] \in {<<"h", "i", "t">>, <<"h", "i", "t", "(", ")">>}
    THEN hit(g, player_name, fresh)
    ELSE IF action.isstr
            /\ NORMALIZED[action]
                 \in {<<"s", "t", "a", "n", "d">>, <<"s", "t", "a", "n", "d", "(", ")">>}
    THEN stand(g, player_name)
    ELSE [g |-> g, ret |-> InvalidAction]

(***************************** SafeGameActionTool **************************)
\* the guard forcing the stand one submit early
SafeGameActionTool_run_early(g, cnt, player_name, action, fresh) ==
    LET cnt1 == [cnt EXCEPT ![player_name] = @ + 1]
    IN  IF cnt1[player_name] >= max_actions
        THEN [g |-> stand(g, player_name).g, counts |-> cnt1,
              ret |-> <<Msg("FORCE: max actions exceeded", TRUE, "", <<>>, max_actions)>>]
        ELSE LET r == GameActionTool_run(g, player_name, action, fresh)
             IN  [g |-> r.g, counts |-> cnt1, ret |-> r.ret]

\* the guard reporting the forced stand without making it
SafeGameActionTool_run_no_stand(g, cnt, player_name, action, fresh) ==
    LET cnt1 == [cnt EXCEPT ![player_name] = @ + 1]
    IN  IF cnt1[player_name] > max_actions
        THEN [g |-> g, counts |-> cnt1,
              ret |-> <<Msg("FORCE: max actions exceeded", TRUE, "", <<>>, max_actions)>>]
        ELSE LET r == GameActionTool_run(g, player_name, action, fresh)
             IN  [g |-> r.g, counts |-> cnt1, ret |-> r.ret]

\* the tool's state beside the game: _counts
SafeGameActionTool_run(g, cnt, player_name, action, fresh) ==
    LET cnt1 == [cnt EXCEPT ![player_name] = @ + 1]
    IN  IF cnt1[player_name] > max_actions
        THEN [g |-> stand(g, player_name).g, counts |-> cnt1,
              ret |-> <<Msg("FORCE: max actions exceeded", TRUE, "", <<>>, max_actions)>>]
        ELSE LET r == GameActionTool_run(g, player_name, action, fresh)
             IN  [g |-> r.g, counts |-> cnt1, ret |-> r.ret]

(***************************** actions *************************************)
Drawn == DeckSize - Len(cards)

\* the state a call leaves and the value it returns
Assign(r) ==
    /\ cards' = r.g.cards
    /\ hands' = r.g.hands
    /\ active_players' = r.g.active_players
    /\ game_status' = r.g.game_status
    /\ result' = r.ret
    /\ UNCHANGED decks

\* a call that draws is started only while fewer than MaxDraws cards are drawn
Commit(r) ==
    /\ r.g.cards # cards => Drawn < MaxDraws
    /\ Assign(r)

Init ==
    /\ cards \in Shuffles
    /\ hands = [name \in Names |-> <<>>]
    /\ active_players = Players
    /\ game_status = "READY"
    /\ counts = [name \in Names |-> 0]
    /\ result = NoReturn
    /\ decks = NUM_DECKS

DealInitialCards ==
    /\ \E fresh \in Refills(cards, 2 * Len(player_names) + 2) :
          Commit(deal_initial_cards(Game, fresh))
    /\ UNCHANGED counts

Hit(name) ==
    /\ \E fresh \in Refills(cards, 1) : Commit(hit(Game, name, fresh))
    /\ UNCHANGED counts

Stand(name) ==
    /\ Commit(stand(Game, name))
    /\ UNCHANGED counts

DealerPlay ==
    /\ \E fresh \in Refills(cards, 17) : Commit(dealer_play(Game, fresh))
    /\ UNCHANGED counts

\* GameActionTool._run called directly (the gateway's submit)
Submit(name, action) ==
    /\ \E fresh \in Refills(cards, 1) :
          Commit(GameActionTool_run(Game, name, action, fresh))
    /\ UNCHANGED counts

Next ==
    \/ DealInitialCards
    \/ \E name \in Names : Hit(name)
    \/ \E name \in Names : Stand(name)
    \/ DealerPlay
    \/ \E name \in Names, action \in Submitted : Submit(name, action)

Spec == Init /\ [][Next]_vars

\* rounds played through the action gateway only
NextGateway ==
    \/ DealInitialCards
    \/ \E name \in Names, action \in Submitted : Submit(name, action)

GatewaySpec == Init /\ [][NextGateway]_vars

\* the counter of a name is followed up to two submits past the cap
MaxCount == max_actions + 2

\* SafeGameActionTool._run: the guarded submit
SafeSubmit(name, action) ==
    /\ counts[name] < MaxCount
    /\ \E fresh \in Refills(cards, 1) :
          LET r == SafeGameActionTool_run(Game, counts, name, action, fresh)
          IN  Commit(r) /\ counts' = r.counts

\* rounds played by the participants through the turn guard only
NextGuard ==
    \/ DealInitialCards
    \/ \E name \in Players, action \in Submitted : SafeSubmit(name, action)

GuardSpec == Init /\ [][NextGuard]_vars

\* Deck(num_decks) on its own: the list as built, or as built and reversed
DeckCounts == (1..MaxDecks) \cup {NUM_DECKS}

Reverse(s) == [i \in 1..Len(s) |-> s[Len(s) + 1 - i]]

InitDeck ==
    /\ decks \in DeckCounts
    /\ cards \in {BuildDeck(decks), Reverse(BuildDeck(decks))}
    /\ hands = [name \in Names |-> <<>>]
    /\ active_players = Players
    /\ game_status = "READY"
    /\ counts = [name \in Names |-> 0]
    /\ result = NoReturn

\* Deck.deal_card; followed until the first card after a rebuild is dealt
DealCard ==
    /\ cards = <<>> \/ Len(cards) <= 52 * decks
    /\ \E fresh \in Refills(cards, 1) :
          LET d == deal_card(cards, fresh)
          IN  /\ cards' = d.cards
              /\ result' = <<Msg("Card", FALSE, "", <<d.card>>, 0)>>
    /\ UNCHANGED <<hands, active_players, game_status, counts, decks>>

NextDeck == DealCard

DeckSpec == InitDeck /\ [][NextDeck]_vars

\* A round played in the order main.py plays it: the deal, the turns of the
\* players in the order of player_names, the dealer's play, after which no
\* player acts; the state and the scorecard are read at any time.  The first player is dealt a King
\* first, the second player two Nines.
RoundRanks == {1, 6, 13}

RoundTops ==
    {<<13, 9, t[1], t[2], 9>> \o SubSeq(t, 3, RoundLen) :
        t \in [1..RoundLen -> RoundRanks]}

InitRound ==
    /\ cards \in {Shuffle(top) : top \in RoundTops}
    /\ hands = [name \in Names |-> <<>>]
    /\ active_players = Players
    /\ game_status = "READY"
    /\ counts = [name \in Names |-> 0]
    /\ result = NoReturn
    /\ decks = NUM_DECKS

RoundDeal == game_status = "READY" /\ DealInitialCards

\* the player whose turn it is: the first of player_names still active
Turn(name) ==
    /\ game_status = "IN_PROGRESS"
    /\ name \in active_players
    /\ \A i, j \in 1..Len(player_names) :
          (player_names[j] = name /\ i < j) => player_names[i] \notin active_players
    /\ (Hit(name) \/ Stand(name))

\* the dealer's play of the round, made once, after the turns (whether or
\* not every player has finished)
RoundDealerPlay ==
    /\ game_status = "IN_PROGRESS"
    /\ \E fresh \in Refills(cards, 17) : Assign(dealer_play(Game, fresh))
    /\ UNCHANGED counts

\* names asked about: the participants, the dealer and a name not at the table
Asked == Names \cup {"Nobody"}

GetPlayerState(name) ==
    /\ Commit(get_player_state(Game, name))
    /\ UNCHANGED counts

DetermineWinner ==
    /\ Commit(determine_winner(Game))
    /\ UNCHANGED counts

ResultToolRun ==
    /\ Commit(ResultTool_run(Game))
    /\ UNCHANGED counts

NextRound ==
    \/ RoundDeal
    \/ \E name \in Players : Turn(name)
    \/ RoundDealerPlay
    \/ \E name \in Asked : GetPlayerState(name)
    \/ DetermineWinner
    \/ ResultToolRun

RoundSpec == InitRound /\ [][NextRound]_vars

\* the cards of the lists handed to score_hand: A, 5, 9 and K of spades
ScoreCards == {Card(1, 1), Card(5, 1), Card(9, 1), Card(13, 1)}

HandInputs == UNION {[1..n -> ScoreCards] : n \in 0..MaxHand}

\* BlackjackGame.score_hand called on a list of cards
ScoreHand(hand) ==
    /\ result' = <<Msg("score_hand", FALSE, "", hand, score_hand(hand))>>
    /\ UNCHANGED <<cards, hands, active_players, game_status, counts, decks>>

NextScore == \E hand \in HandInputs : ScoreHand(hand)

\* a new game; score_hand does not read the shoe, one shuffle is followed
InitScore == Init /\ cards = Shuffle([k \in 1..TopLen |-> TopRanks[1]])

ScoreSpec == InitScore /\ [][NextScore]_vars

(***************************** properties **********************************)
GameVars == <<cards, hands, active_players, game_status>>

\* the kind of a returned string, as its caller tells them apart
Kind(ret) ==
    IF ret[1].text \in {"is already finished", "has already finished"}
    THEN "AlreadyFinished"
    ELSE IF ret[1].text = "Invalid action" THEN "Invalid"
    ELSE IF ret[1].task_complete THEN "TurnComplete"
    ELSE "Continue"

Returned(text) == result # <<>> /\ result[1].text = text

TopCard == cards[Len(cards)]

\* the steps of hit, stand and dealer_play, told first by what they return
HitBy(name) == result' # <<>> /\ result'[1].player = name /\ Hit(name)
StandBy(name) == result' # <<>> /\ result'[1].player = name /\ Stand(name)
SubmitBy(name, a) == result' # <<>> /\ result'[1].player = name /\ Submit(name, a)
DealerPlays == Len(result') >= 2 /\ game_status' = "FINISHED" /\ DealerPlay

C1_AfterHit(name) ==
    LET card == TopCard
        s    == score_hand(Append(hands[name], card))
    IN  /\ cards' = SubSeq(cards, 1, Len(cards) - 1)
        /\ hands' = [hands EXCEPT ![name] = Append(@, card)]
        /\ game_status' = game_status
        /\ s > 21 => /\ active_players' = active_players \ {name}
                     /\ result' = <<Msg("BUST", TRUE, name, <<card>>, s)>>
        /\ s = 21 => /\ active_players' = active_players \ {name}
                     /\ result' = <<Msg("STAND automatically", TRUE, name, <<card>>, s)>>
        /\ s < 21 => /\ active_players' = active_players
                     /\ result' = <<Msg("New score", FALSE, name, <<card>>, s)>>

\* C1: a hit by an active participant moves the top card of the shoe to the
\* end of that participant's hand and changes no other hand; a new score over
\* 21 removes the participant from the active set and returns the bust line
\* with the completion marker, a new score of 21 removes the participant and
\* returns the automatic-stand line with the marker, and any other score
\* leaves the participant active and returns the continue line without it.
C1_HitContract ==
    [][\A name \in Names :
          (name \in active_players /\ HitBy(name)) => C1_AfterHit(name)]_vars

C1_Witness ==
    /\ Returned("STAND automatically")
    /\ game_status = "IN_PROGRESS"
    /\ result[1].player \notin active_players
    /\ Len(hands[result[1].player]) = 3

\* C2: no participant in the active set has a score of 21 or more (an active
\* participant has not busted, stood or reached 21).
C2_ActiveBelow21 ==
    \A name \in active_players : score_hand(hands[name]) < 21

HitOrStandText == {Str(t) : t \in HitSpellings \cup StandSpellings}

\* C3: a participant who is out of the active set stays out of it under every
\* step that is not deal_initial_cards, whoever acts; and a hit or a stand for
\* that participant, called directly or submitted through the gateway,
\* returns AlreadyFinished.
C3_StaysFinished ==
    [][\/ \A p \in Players :
             p \notin active_players =>
                /\ p \notin active_players'
                /\ (\/ HitBy(p)
                    \/ StandBy(p)
                    \/ \E a \in Submitted \cap HitOrStandText : SubmitBy(p, a))
                   => Kind(result') = "AlreadyFinished"
       \/ DealInitialCards]_vars

C3_Witness ==
    /\ Returned("is already finished")
    /\ result[1].player \in Players \ active_players
    /\ score_hand(hands[result[1].player]) > 21

\* C4: a hit or a stand for a name that is not in the active set returns
\* AlreadyFinished for that name and leaves the shoe, every hand, the active
\* set and the status as they were.
C4_InactiveFrame ==
    [][\A name \in Names :
          (name \notin active_players /\ (HitBy(name) \/ StandBy(name)))
             => /\ UNCHANGED GameVars
                /\ Kind(result') = "AlreadyFinished"
                /\ result'[1].player = name]_vars

C4_Witness ==
    /\ Returned("has already finished")
    /\ result[1].player \in Players
    /\ game_status = "IN_PROGRESS"
    /\ active_players # {}

ForcedStand == <<Msg("FORCE: max actions exceeded", TRUE, "", <<>>, max_actions)>>

\* a step of the gateway's submit, seen from the guard: the Round and the
\* result are those of GameActionTool._run for some submitted action
GatewayStep(name) ==
    \E a \in Submitted :
       LET r == GameActionTool_run(Game, name, a, cards)
       IN  /\ <<cards', hands', active_players', game_status'>>
                = <<r.g.cards, r.g.hands, r.g.active_players, r.g.game_status>>
           /\ result' = r.ret

\* C5: only a guarded submit changes a counter, and it adds one to the
\* submitting participant's counter and to no other, whatever the action and
\* whether or not the participant is active.  A submit that takes the counter
\* over max_actions draws no card, changes no hand, takes the participant out
\* of the active set and returns the forced-stand line with the completion
\* marker whatever the action text is; a submit that does not is the gateway's
\* submit.  Before the first deal a participant who has submitted
\* max_actions + 1 times therefore holds at most max_actions cards and is out
\* of the active set.
C5_GuardCap ==
    /\ [][\A name \in Players :
            counts'[name] # counts[name] =>
               /\ counts' = [counts EXCEPT ![name] = @ + 1]
               /\ IF counts[name] + 1 > max_actions
                  THEN /\ cards' = cards
                       /\ hands' = hands
                       /\ active_players' = active_players \ {name}
                       /\ game_status' = game_status
                       /\ result' = ForcedStand
                       /\ Kind(result') = "TurnComplete"
                  ELSE GatewayStep(name)]_vars
    /\ [](game_status = "READY" =>
            \A p \in Players :
               /\ Len(hands[p]) <= max_actions
               /\ Len(hands[p]) <= counts[p]
               /\ counts[p] > max_actions => p \notin active_players)

C5_Witness ==
    /\ game_status = "READY"
    /\ result = ForcedStand
    /\ counts["P1"] = max_actions + 1
    /\ Len(hands["P1"]) = max_actions
    /\ score_hand(hands["P1"]) < 21
    /\ "P1" \notin active_players

\* C6: a guarded submit (the step that raises the participant's counter)
\* after which the counter is over max_actions leaves the participant out of
\* the active set, so a caller submitting until the participant is inactive
\* stops at the latest after submit number max_actions + 1; a guarded submit
\* that changes a hand appends one card to the submitter's hand and is one of
\* the submitter's first max_actions submits, so the guard adds at most
\* max_actions cards to a hand; and no step, a new deal included, lowers a
\* counter or changes a hand other than by a deal or such a submit.
C6_BoundedTurn ==
    [][/\ \A p \in Players :
             /\ counts'[p] >= counts[p]
             /\ counts'[p] # counts[p] =>
                   /\ counts'[p] = counts[p] + 1
                   /\ counts'[p] > max_actions => p \notin active_players'
                   /\ hands' # hands =>
                         /\ counts'[p] <= max_actions
                         /\ hands' = [hands EXCEPT ![p] = Append(@, TopCard)]
       /\ (counts' = counts /\ hands' # hands) =>
             result' = NoReturn /\ game_status' = "IN_PROGRESS"]_vars

C6_Witness ==
    /\ game_status = "IN_PROGRESS"
    /\ result = ForcedStand
    /\ \E p \in Players :
          /\ counts[p] = max_actions + 1
          /\ p \notin active_players
          /\ Len(hands[p]) = 3

Unrecognized == {Str(t) : t \in OtherTexts} \cup {NotStr}

\* C7: a submit whose action is an unrecognized word, text that does not
\* parse as JSON, a JSON object without a string `action` member, or not a
\* string returns the invalid-action line and changes nothing of the Round,
\* for every name and in every reachable state.
C7_InvalidNoChange ==
    /\ \A name \in Names, a \in Unrecognized :
          LET r == GameActionTool_run(Game, name, a, cards)
          IN  r.g = Game /\ r.ret = InvalidAction /\ Kind(r.ret) = "Invalid"
    /\ Unrecognized \cap HitOrStandText = {}

C7_Witness ==
    /\ result = InvalidAction
    /\ game_status = "IN_PROGRESS"
    /\ active_players = Players

\* C8: in every reachable state and for every name, each accepted spelling of
\* hit (any letter case, surrounding whitespace, a trailing "()", plain or as
\* the `action` member of a JSON object) gives the state and the result of the
\* plain word hit, which is a hit; and each accepted spelling of stand gives
\* the state and the result of the plain word stand, which is a stand.
C8_SpellingsAgree ==
    \A name \in Names :
       LET by_hit   == GameActionTool_run(Game, name, Str(hit_), cards)
           by_stand == GameActionTool_run(Game, name, Str(stand_), cards)
       IN  /\ by_hit = hit(Game, name, cards)
           /\ by_stand = stand(Game, name)
           /\ \A t \in HitSpellings :
                 GameActionTool_run(Game, name, Str(t), cards) = by_hit
           /\ \A t \in StandSpellings :
                 GameActionTool_run(Game, name, Str(t), cards) = by_stand

C8_Witness ==
    /\ Returned("New score")
    /\ game_status = "IN_PROGRESS"
    /\ Len(hands[result[1].player]) = 3
    /\ result[1].player \in active_players

\* C9: the result of a submit is of one of the four kinds; it carries the
\* completion marker exactly when it is TurnComplete; a TurnComplete result
\* leaves the submitting name out of the active set and a Continue result
\* leaves it in; for every name, every action and in every reachable state.
C9_KindsAgree ==
    \A name \in Names, a \in Actions :
       LET r == GameActionTool_run(Game, name, a, cards)
       IN  /\ Len(r.ret) = 1
           /\ Kind(r.ret) \in {"Continue", "TurnComplete", "Invalid", "AlreadyFinished"}
           /\ r.ret[1].task_complete <=> Kind(r.ret) = "TurnComplete"
           /\ Kind(r.ret) = "TurnComplete" => name \notin r.g.active_players
           /\ Kind(r.ret) = "Continue" => name \in r.g.active_players
           /\ name \in active_players /\ a \in HitOrStandText
                 => Kind(r.ret) \in {"Continue", "TurnComplete"}

C9_Witness ==
    /\ Returned("BUST")
    /\ Kind(result) = "TurnComplete"
    /\ result[1].player \notin active_players
    /\ score_hand(hands[result[1].player]) > 21

IsPrefix(s, t) == Len(s) <= Len(t) /\ SubSeq(t, 1, Len(s)) = s

\* C10: dealer_play appends to the dealer's hand the cards taken from the top
\* of the shoe, one by one: it takes none when the dealer's score is 17 or
\* more, every card is taken at a score below 17, the score it ends with is at
\* least 17 and the status FINISHED; the participants' hands and the active
\* set are as before.
C10_DealerDraws ==
    [][DealerPlays =>
         LET before == hands[dealer_name]
             after  == hands'[dealer_name]
             n      == Len(after) - Len(before)
         IN  /\ IsPrefix(before, after)
             /\ n = Len(cards) - Len(cards')
             /\ IsPrefix(cards', cards)
             /\ \A k \in 1..n :
                   /\ after[Len(before) + k] = cards[Len(cards) + 1 - k]
                   /\ score_hand(SubSeq(after, 1, Len(before) + k - 1)) < 17
             /\ score_hand(before) >= 17 => n = 0
             /\ score_hand(after) >= 17
             /\ game_status' = "FINISHED"
             /\ \A p \in Players : hands'[p] = hands[p]
             /\ active_players' = active_players]_vars

C10_Witness ==
    /\ game_status = "FINISHED"
    /\ Len(hands[dealer_name]) >= 4
    /\ \A p \in Players : Len(hands[p]) = 2
    /\ Returned("Dealer reveals full hand")
    /\ result[1].score < 17

\* the verdict a line of the scorecard gives its participant
Verdict(outcome) ==
    IF outcome \in {"BUSTED - Dealer WINS.", "Dealer WINS."} THEN "loses"
    ELSE IF outcome \in {"Dealer BUSTED - Player WINS.", "Player WINS."} THEN "wins"
    ELSE IF outcome = "PUSH (Tie)." THEN "push"
    ELSE "none"

\* the verdict by precedence, from the two scores
Precedence(player_score, dealer_score) ==
    IF player_score > 21 THEN "loses"
    ELSE IF dealer_score > 21 THEN "wins"
    ELSE IF player_score > dealer_score THEN "wins"
    ELSE IF player_score < dealer_score THEN "loses"
    ELSE "push"

\* a scorecard of the present hands: the dealer's line, then one line per
\* participant in the order of player_names, each with the verdict that
\* the precedence gives
ByPrecedence(lines) ==
    /\ Len(lines) = Len(player_names) + 1
    /\ lines[1].player = dealer_name
    /\ lines[1].score = score_hand(hands[dealer_name])
    /\ lines[1].outcome = "BUSTED" <=> lines[1].score > 21
    /\ \A i \in 1..Len(player_names) :
          LET line == lines[i + 1]
          IN  /\ line.player = player_names[i]
              /\ line.card = hands[line.player]
              /\ line.score = score_hand(hands[line.player])
              /\ Verdict(line.outcome) = Precedence(line.score, lines[1].score)
              /\ line.score > 21 => line.outcome = "BUSTED - Dealer WINS."

\* C11: the scorecard of determine_winner has exactly one line for each
\* participant and none other than the dealer's; the participant loses when
\* the participant's score is over 21, also when the dealer's is; otherwise
\* wins when the dealer's score is over 21; otherwise the higher score wins
\* and equal scores are a push.
C11_WinnerPrecedence ==
    /\ Returned("GAME RESULTS") => ByPrecedence(result)
    /\ Returned("scorecard") => ByPrecedence(result[1].scorecard)

C11_Witness ==
    /\ Returned("GAME RESULTS")
    /\ game_status = "FINISHED"
    /\ result[1].outcome = "BUSTED"
    /\ result[2].score > 21 /\ result[2].outcome = "BUSTED - Dealer WINS."
    /\ result[3].score <= 21 /\ result[3].outcome = "Dealer BUSTED - Player WINS."

\* C12: a call of determine_winner, direct or through ResultTool._run, leaves
\* hands, shoe, active set and status as they were; and in every reachable
\* state a second call, made in the state the first one leaves, returns what
\* the first returned, the tool returning the scorecard of determine_winner.
C12_WinnerReadOnly ==
    /\ [][(/\ result' # <<>>
            /\ result'[1].text \in {"GAME RESULTS", "scorecard"}
            /\ (DetermineWinner \/ ResultToolRun)) => UNCHANGED GameVars]_vars
    /\ [](LET first  == determine_winner(Game)
               second == determine_winner(first.g)
               tool1  == ResultTool_run(Game)
               tool2  == ResultTool_run(tool1.g)
           IN  /\ first.g = Game /\ second.ret = first.ret
               /\ tool1.g = Game /\ tool2.ret = tool1.ret
               /\ tool1.ret[1].scorecard = first.ret)

C12_Witness ==
    /\ Returned("scorecard")
    /\ game_status = "IN_PROGRESS"
    /\ active_players # {}
    /\ Len(result[1].scorecard) = Len(player_names) + 1

\* a step of deal_initial_cards, told first by what it leaves
Deals == result' = NoReturn /\ game_status' = "IN_PROGRESS" /\ DealInitialCards

\* C13: from any state a deal leaves every participant and the dealer with
\* two cards, the active set equal to the set of the participants and the
\* status IN_PROGRESS; with at least 2 * (n + 1) cards in the shoe it takes
\* exactly that many off its top, and the card drawn k-th (from 0) is card
\* number (k div (n + 1)) + 1 of the hand of name number (k mod (n + 1)) + 1
\* in the order participants, then dealer.
C13_DealContract ==
    [][Deals =>
         LET order == player_names \o <<dealer_name>>
             n1    == Len(order)
         IN  /\ \A name \in Names : Len(hands'[name]) = 2
             /\ DOMAIN hands' = Names
             /\ active_players' = Players
             /\ game_status' = "IN_PROGRESS"
             /\ Len(cards) >= 2 * n1 =>
                   /\ cards' = SubSeq(cards, 1, Len(cards) - 2 * n1)
                   /\ \A k \in 0..(2 * n1 - 1) :
                         hands'[order[(k % n1) + 1]][(k \div n1) + 1]
                            = cards[Len(cards) - k]]_vars

C13_Witness ==
    /\ game_status = "IN_PROGRESS"
    /\ result = NoReturn
    /\ Drawn = 2 * (Len(player_names) + 1) + 1
    /\ \A name \in Names : Len(hands[name]) = 2

C19_DealerLog ==
    [][DealerPlays =>
         LET before == hands[dealer_name]
             after  == hands'[dealer_name]
             n      == Len(cards) - Len(cards')
             log    == result'
         IN  /\ Len(after) = Len(before) + n
             /\ Len(log) = n + 2
             /\ log[1] = Msg("Dealer reveals full hand", FALSE, dealer_name, before,
                             score_hand(before))
             /\ \A k \in 1..n :
                   log[k + 1] = Msg("Dealer hits", FALSE, dealer_name,
                                    <<cards[Len(cards) + 1 - k]>>,
                                    score_hand(SubSeq(after, 1, Len(before) + k)))
             /\ log[n + 2] = Msg(IF score_hand(after) > 21 THEN "Dealer BUSTS"
                                 ELSE "Dealer STANDS",
                                 FALSE, dealer_name, <<>>, score_hand(after))]_vars

C19_Witness ==
    /\ game_status = "FINISHED"
    /\ Returned("Dealer reveals full hand")
    /\ Len(result) >= 4
    /\ result[Len(result)].text = "Dealer BUSTS"
    /\ result[Len(result) - 1].score > 21

\* C20: a stand by an active participant takes that participant, and no one
\* else, out of the active set, leaves the shoe, every hand and the status
\* as they were, and returns the stand line with the completion marker and
\* the score of the participant's hand.
C20_StandContract ==
    [][\A name \in Names :
          (name \in active_players /\ StandBy(name))
             => /\ active_players' = active_players \ {name}
                /\ UNCHANGED <<cards, hands, game_status>>
                /\ result' = <<Msg("STANDS", TRUE, name, <<>>,
                                   score_hand(hands[name]))>>
                /\ Kind(result') = "TurnComplete"]_vars

C20_Witness ==
    /\ Returned("STANDS")
    /\ game_status = "IN_PROGRESS"
    /\ result[1].player \in Players \ active_players
    /\ active_players # {}
    /\ result[1].score = score_hand(hands[result[1].player])
    /\ result[1].score < 21

\* C15: no call ends in a raised exception: what a call leaves as its result
\* is a returned value, in every state and for every name.
C15_NoAbort ==
    ~(result # <<>> /\ result[1].text = "IndexError")

StatusMessages == {"MUST CHOOSE HIT or STAND", "BUSTED", "STAND (Turn Over)"}

\* C18: get_player_state changes nothing of the Round; once the cards are
\* dealt it returns a summary, for every name asked about, and the summary
\* shows the hand and the score of the name, the first card of the dealer's
\* hand as up-card, and the status BUSTED when the score is over 21,
\* otherwise STAND when the name is not active, otherwise MUST CHOOSE; the
\* first card of the dealer's hand stays the same through the round.
C18_StateSummary ==
    /\ [][\A name \in Asked :
            (/\ result' # <<>>
             /\ result'[1].text \in StatusMessages \cup {"IndexError"}
             /\ GetPlayerState(name))
            => /\ UNCHANGED GameVars
               /\ game_status # "READY"
                     => result'[1].text \in StatusMessages /\ result'[1].player = name]_vars
    /\ [][hands[dealer_name] # <<>> =>
             /\ hands'[dealer_name] # <<>>
             /\ hands'[dealer_name][1] = hands[dealer_name][1]]_vars
    /\ []((result # <<>> /\ result[1].text \in StatusMessages) =>
             LET r    == result[1]
                 hand == IF r.player \in Names THEN hands[r.player] ELSE <<>>
             IN  /\ r.card = hand
                 /\ r.score = score_hand(hand)
                 /\ hands[dealer_name] # <<>>
                 /\ r.dealer_up_card = hands[dealer_name][1]
                 /\ r.text = IF r.score > 21 THEN "BUSTED"
                             ELSE IF r.player \notin active_players
                             THEN "STAND (Turn Over)"
                             ELSE "MUST CHOOSE HIT or STAND")

C18_Witness ==
    /\ result # <<>> /\ result[1].text = "BUSTED"
    /\ result[1].player \in Players
    /\ game_status = "FINISHED"
    /\ Len(hands[dealer_name]) >= 3
    /\ result[1].dealer_up_card # hands[dealer_name][Len(hands[dealer_name])]

\* C16: a draw from a non-empty shoe leaves one card fewer; a draw from an
\* empty shoe of a Deck built from N decks leaves 52 * N - 1
\* cards (a full rebuild of N decks, less the card drawn).
C16_DrawKeepsCount ==
    [][cards' # cards =>
         IF cards = <<>> THEN Len(cards') = 52 * decks - 1
         ELSE Len(cards') = Len(cards) - 1]_vars

\* the blackjack total of a hand, by the rule book: each Ace counts 1 or 11
RuleValue(card, ace) ==
    LET r == ((card - 1) \div 4) + 1
    IN  IF r = 1 THEN ace ELSE IF r >= 11 THEN 10 ELSE r

RECURSIVE RuleSum(_, _)
RuleSum(hand, ace) ==
    IF hand = <<>> THEN 0
    ELSE RuleValue(Head(hand), ace) + RuleSum(Tail(hand), ace)

RuleTotal(hand) ==
    LET low    == RuleSum(hand, 1)
        aces   == Cardinality({i \in 1..Len(hand) : (hand[i] - 1) \div 4 = 0})
        totals == {low + 10 * k : k \in 0..aces}
        good   == {t \in totals : t <= 21}
    IN  IF good = {} THEN low ELSE CHOOSE t \in good : \A u \in good : u <= t

\* C17: the score of a hand is 0 for the empty hand and otherwise the largest
\* total not above 21 that counting each Ace as 1 or as 11 gives, or the
\* total with every Ace as 1 when all totals are above 21; it is never above
\* the sum with every Ace as 11, and it is that sum when the sum is at most
\* 21 (an Ace is lowered only while the total exceeds 21).
C17_ScoreIsRuleTotal ==
    Returned("score_hand") =>
       LET hand == result[1].card
           raw  == RuleSum(hand, 11)
       IN  /\ result[1].score = RuleTotal(hand)
           /\ result[1].score <= raw
           /\ raw <= 21 => result[1].score = raw
           /\ hand = <<>> => result[1].score = 0

C17_Witness ==
    /\ Returned("score_hand")
    /\ Len(result[1].card) = 3
    /\ NumAces(result[1].card) = 2
    /\ result[1].score = 12

\* C21: while the status is READY every hand is empty; and a step that
\* changes the status takes it from READY to IN_PROGRESS and is a deal, or
\* from IN_PROGRESS to FINISHED and is the dealer's play.
C21_StatusMeaning ==
    /\ [](game_status = "READY" => \A name \in Names : hands[name] = <<>>)
    /\ [][game_status' # game_status =>
             \/ game_status = "READY" /\ game_status' = "IN_PROGRESS" /\ Deals
             \/ game_status = "IN_PROGRESS" /\ game_status' = "FINISHED"
                   /\ DealerPlays]_vars

\* Rounds in which every operation of BlackjackGame is called in any order,
\* the deal over the hands of an earlier round included.  The cards drawn
\* first all have one rank.
PlayTops == {[k \in 1..TopLen |-> r] : r \in RoundRanks}

InitPlay ==
    /\ cards \in {Shuffle(top) : top \in PlayTops}
    /\ hands = [name \in Names |-> <<>>]
    /\ active_players = Players
    /\ game_status = "READY"
    /\ counts = [name \in Names |-> 0]
    /\ result = NoReturn
    /\ decks = NUM_DECKS

NextPlay ==
    \/ DealInitialCards
    \/ \E name \in Names : Hit(name)
    \/ \E name \in Names : Stand(name)
    \/ DealerPlay
    \/ \E name \in Names, action \in Submitted : Submit(name, action)
    \/ \E name \in Asked : GetPlayerState(name)
    \/ DetermineWinner

PlaySpec == InitPlay /\ [][NextPlay]_vars

\* C22: every step of hit, stand, submit, dealer_play, get_player_state and
\* determine_winner leaves each hand as it was or appends cards at its end,
\* so the hand before is a prefix of the hand after; a step after which some
\* hand is not an extension of what it was is a deal.
C22_HandsGrow ==
    [][(\E name \in Names : ~IsPrefix(hands[name], hands'[name])) => Deals]_vars

\* hands that a hit and the dealer's play have extended past the two cards
\* of the deal, read by determine_winner
C22_Witness ==
    /\ Returned("GAME RESULTS")
    /\ game_status = "FINISHED"
    /\ Len(hands[dealer_name]) >= 3
    /\ \E name \in Players : Len(hands[name]) >= 3

\* the 52 cards of one deck
DeckCards == {Card(rank, suit) : rank \in 1..Len(RANKS), suit \in 1..Len(SUITS)}

\* how many times a card lies in a shoe, and in the hands together
InShoe(card, deck) == Cardinality({i \in 1..Len(deck) : deck[i] = card})

Held(card, h) ==
    Cardinality({p \in UNION {{<<name, i>> : i \in 1..Len(h[name])} : name \in DOMAIN h} :
                    h[p[1]][p[2]] = card})

\* C23: a constructed Round has every card of its decks in the shoe, each as
\* many times as there are decks, and none in a hand; and every step made
\* without a refill of the shoe, other than a deal made after the first (a
\* first deal is one made in READY), takes its cards from the top of the
\* shoe and adds exactly these cards to the hands, so that shoe and
\* hands together keep holding the full multiset.
C23_Conservation ==
    /\ \A card \in DeckCards : InShoe(card, cards) = decks /\ Held(card, hands) = 0
    /\ [][(Len(cards') <= Len(cards) /\ (Deals => game_status = "READY")) =>
             /\ cards' = SubSeq(cards, 1, Len(cards'))
             /\ \A card \in DeckCards :
                   Held(card, hands') =
                      Held(card, hands)
                      + InShoe(card, SubSeq(cards, Len(cards') + 1, Len(cards)))]_vars

\* C24: whenever the status is FINISHED the dealer's score is 17 or more,
\* whatever was called before and in whatever order; and a dealer_play made
\* in FINISHED takes no card from the shoe and changes no hand.
C24_FinishedDealer ==
    /\ [](game_status = "FINISHED" => score_hand(hands[dealer_name]) >= 17)
    /\ [][(game_status = "FINISHED" /\ DealerPlays) =>
             cards' = cards /\ hands' = hands]_vars

\* a dealer_play repeated in FINISHED: it reveals a hand of three or more
\* cards, which an earlier dealer_play drew, and draws none
C24_Witness ==
    /\ game_status = "FINISHED"
    /\ Returned("Dealer reveals full hand")
    /\ Len(result) = 2
    /\ Len(hands[dealer_name]) >= 3

====
